---- MODULE Spec2Model ----
(***************************************************************************)
(* Model of the Gitea AI reviewer webhook service: app/main.py (signature  *)
(* verification, diff assembly, webhook orchestration, label handling) and *)
(* app/llm.py (the review call with its retry loop).                        *)
(*                                                                         *)
(* Text is modelled as a sequence of atoms.  An atom is a one-character    *)
(* string, or a fixed literal of the program (a diagnostic prefix, an      *)
(* exception message) that contains none of the characters the program's   *)
(* searches look for.  Text that the program slices or searches (response  *)
(* bodies, patches, review text) is made of one-character atoms only.      *)
(***************************************************************************)
EXTENDS Integers, Sequences, FiniteSets, TLC

VARIABLES sg, rv, df, config, env, task, host, delivered

vars == <<sg, rv, df, config, env, task, host, delivered>>

(***************************************************************************)
(* Text helpers (Python str operations used by the program).               *)
(***************************************************************************)

\* s[:n]
Take(s, n) == SubSeq(s, 1, IF Len(s) < n THEN Len(s) ELSE n)

\* c * n
Rep(c, n) == [i \in 1..n |-> c]

UpperToLower ==
  [c \in {"A", "E", "G", "H", "I", "K", "L", "M", "O", "Q", "R", "S", "T", "U", "V", "W"} |->
     CASE c = "A" -> "a" [] c = "E" -> "e" [] c = "G" -> "g" [] c = "H" -> "h"
       [] c = "I" -> "i" [] c = "K" -> "k" [] c = "L" -> "l" [] c = "M" -> "m"
       [] c = "O" -> "o" [] c = "Q" -> "q" [] c = "R" -> "r" [] c = "S" -> "s"
       [] c = "T" -> "t" [] c = "U" -> "u" [] c = "V" -> "v" [] c = "W" -> "w"]

LowerChar(c) == IF c \in DOMAIN UpperToLower THEN UpperToLower[c] ELSE c

\* s.lower()
Lower(s) == [i \in 1..Len(s) |-> LowerChar(s[i])]

\* sub in s
Contains(s, sub) ==
  \E i \in 1..(Len(s) - Len(sub) + 1) : SubSeq(s, i, i + Len(sub) - 1) = sub

Whitespace == {" ", "\n", "\t"}

\* s.strip()
Strip(s) ==
  LET keep == {i \in 1..Len(s) : s[i] \notin Whitespace}
  IN  IF keep = {} THEN <<>>
      ELSE LET lo == CHOOSE i \in keep : \A j \in keep : i <= j
               hi == CHOOSE i \in keep : \A j \in keep : j <= i
           IN  SubSeq(s, lo, hi)

(***************************************************************************)
(* Signature verification: sig_ok (app/main.py).                           *)
(*                                                                         *)
(* An HMAC digest is modelled by the triple it is computed from, so two    *)
(* digests are equal exactly when algorithm, key and message are equal     *)
(* (no collisions).  hexdigest() renders it in lower-case hex; a header    *)
(* value is a prefix (possibly empty) followed by a hex string.            *)
(***************************************************************************)

HexDigest(alg, key, msg) == [alg |-> alg, key |-> key, msg |-> msg, case |-> "lower"]

\* The same digits written in upper case: another string.
UpperHex(h) == [h EXCEPT !.case = "upper"]

\* The empty hex string.
NoHex == [alg |-> "", key |-> "", msg |-> "", case |-> "lower"]

\* A header value: the string pre + hex.  A missing header has present = FALSE.
HeaderValue(pre, hex) == [present |-> TRUE, pre |-> pre, hex |-> hex]

NoHeader == [present |-> FALSE, pre |-> "", hex |-> NoHex]

HeaderNames == {"X-Gitea-Signature", "X-Gogs-Signature", "X-Hub-Signature-256", "X-Hub-Signature"}

\* headers.get(name): None for a missing header.
Get(headers, name) == headers[name]

\* Python truthiness of headers.get(name): present and not the empty string.
Truthy(v) == v.present /\ ~(v.pre = "" /\ v.hex = NoHex)

\* v.startswith((p1, p2))
HasPrefix(v, prefixes) == v.pre \in prefixes

\* v.split("=", 1)[1]: the text after the first "=" (hex strings hold no "=").
AfterEquals(v) == HeaderValue("", v.hex)

\* hmac.compare_digest(a, expected): equality of the two strings.
compare_digest(a, expected) == a = HeaderValue("", expected)

Sha256Prefixes == {"sha256=", "SHA256="}

Sha1Prefixes == {"sha1=", "SHA1="}

\* Lines 92-96: the native header decides as soon as it is present.
NativeSig(headers) ==
  IF Truthy(Get(headers, "X-Gitea-Signature")) THEN Get(headers, "X-Gitea-Signature")
  ELSE Get(headers, "X-Gogs-Signature")

\* Variant that falls through to the next family when a present header fails.
sig_ok_fallthrough(sec, body, headers) ==
  IF sec = "" THEN TRUE
  ELSE LET sig    == NativeSig(headers)
           sig256 == Get(headers, "X-Hub-Signature-256")
           sig1   == Get(headers, "X-Hub-Signature")
       IN  \/ /\ Truthy(sig)
              /\ compare_digest(IF HasPrefix(sig, Sha256Prefixes) THEN AfterEquals(sig) ELSE sig,
                                HexDigest("sha256", sec, body))
           \/ /\ Truthy(sig256) /\ HasPrefix(sig256, Sha256Prefixes)
              /\ compare_digest(AfterEquals(sig256), HexDigest("sha256", sec, body))
           \/ /\ Truthy(sig1) /\ HasPrefix(sig1, Sha1Prefixes)
              /\ compare_digest(AfterEquals(sig1), HexDigest("sha1", sec, body))

\* Variant that checks the legacy header with SHA-256 as well.
sig_ok_legacy256(sec, body, headers) ==
  IF sec = "" THEN TRUE
  ELSE LET sig    == NativeSig(headers)
           sig256 == Get(headers, "X-Hub-Signature-256")
           sig1   == Get(headers, "X-Hub-Signature")
       IN  IF Truthy(sig)
             THEN LET sig_hex == IF HasPrefix(sig, Sha256Prefixes) THEN AfterEquals(sig) ELSE sig
                  IN  compare_digest(sig_hex, HexDigest("sha256", sec, body))
           ELSE IF Truthy(sig256) /\ HasPrefix(sig256, Sha256Prefixes)
             THEN compare_digest(AfterEquals(sig256), HexDigest("sha256", sec, body))
           ELSE IF Truthy(sig1) /\ HasPrefix(sig1, Sha1Prefixes)
             THEN compare_digest(AfterEquals(sig1), HexDigest("sha256", sec, body))
           ELSE FALSE

sig_ok(sec, body, headers) ==
  IF sec = "" THEN TRUE
  ELSE LET sig    == NativeSig(headers)
           sig256 == Get(headers, "X-Hub-Signature-256")
           sig1   == Get(headers, "X-Hub-Signature")
       IN  IF Truthy(sig)
             THEN LET sig_hex == IF HasPrefix(sig, Sha256Prefixes) THEN AfterEquals(sig) ELSE sig
                  IN  compare_digest(sig_hex, HexDigest("sha256", sec, body))
           ELSE IF Truthy(sig256) /\ HasPrefix(sig256, Sha256Prefixes)
             THEN compare_digest(AfterEquals(sig256), HexDigest("sha256", sec, body))
           ELSE IF Truthy(sig1) /\ HasPrefix(sig1, Sha1Prefixes)
             THEN compare_digest(AfterEquals(sig1), HexDigest("sha1", sec, body))
           ELSE FALSE

(***************************************************************************)
(* Inputs of the signature check.                                          *)
(***************************************************************************)

\* At most this many of the four signature headers are present in a request.
MaxHeaders == 2

Secrets == {"", "s3cret"}

Bodies == {"body1", "body2"}

\* Hex strings a sender may put in a header: right and wrong algorithm, key and
\* message, upper-case digits, and nothing at all.
HexStrings ==
  {HexDigest(alg, "s3cret", "body1") : alg \in {"sha256", "sha1"}}
    \cup {HexDigest("sha256", "other", "body1"), UpperHex(HexDigest("sha256", "s3cret", "body1")), NoHex}

HeaderPrefixes == {"", "sha256=", "SHA256=", "sha1=", "SHA1="}

HeaderValues == {HeaderValue(p, h) : p \in HeaderPrefixes, h \in HexStrings}

\* A request with the single signature header n.
OnlyHeader(n, v) == [m \in HeaderNames |-> IF m = n THEN v ELSE NoHeader]

HeaderSets ==
  {hs \in [HeaderNames -> HeaderValues \cup {NoHeader}] :
     Cardinality({n \in HeaderNames : hs[n].present}) <= MaxHeaders}

SgIdle == [phase |-> "idle"]

RvIdle == [phase |-> "idle"]

DfIdle == [phase |-> "idle"]

OrchIdle == config = <<>> /\ env = <<>> /\ task = <<>> /\ host = <<>> /\ delivered = 0

InitSig ==
  /\ sg \in {[phase |-> "input", secret |-> s, body |-> b, headers |-> hs, ok |-> FALSE] :
               s \in Secrets, b \in Bodies, hs \in HeaderSets}
  /\ rv = RvIdle /\ df = DfIdle /\ OrchIdle

\* The boundary hands sig_ok the raw body and the request headers (line 128).
Verify ==
  /\ sg.phase = "input"
  /\ sg' = [sg EXCEPT !.phase = "done", !.ok = sig_ok(sg.secret, sg.body, sg.headers)]
  /\ UNCHANGED <<rv, df, config, env, task, host, delivered>>

NextSig == Verify

SpecSig == InitSig /\ [][NextSig]_vars

(***************************************************************************)
(* The review call: review_simple (app/llm.py).                            *)
(***************************************************************************)

\* range(3) at app/llm.py line 34
MaxAttempts == 3

\* [:200] at app/llm.py line 46
BodyPrefix == 200

\* 2 * (attempt + 1) at app/llm.py line 48
BackoffFactor == 2

Quota == <<"q", "u", "o", "t", "a">>

Pad(n) == Rep("x", n)

\* Responses of the completion endpoint.  kind "transport": no response at all
\* (connection error, timeout).  payload says what a 2xx body decodes to.
HttpResponse(status, payload, text) == [kind |-> "http", status |-> status, payload |-> payload, text |-> text]

ResponseTable ==
  [ ok_high       |-> HttpResponse(200, "content", <<"R", "i", "s", "k", ":", " ", "H", "i", "g", "h">>),
    ok_low_ws     |-> HttpResponse(200, "content", <<" ", "r", "i", "s", "k", " ", "l", "e", "v", "e", "l", " ", ":", " ", "L", "O", "W", "\n">>),
    ok_plain      |-> HttpResponse(200, "content", <<"L", "G", "T", "M">>),
    ok_no_info    |-> HttpResponse(200, "content", <<"n", "o", " ", "r", "i", "s", "k", " ", "i", "n", "f", "o">>),
    ok_two        |-> HttpResponse(200, "content", <<"r", "i", "s", "k", ":", "l", "o", "w", " ", "R", "I", "S", "K", ":", "H", "I", "G", "H">>),
    ok_late       |-> HttpResponse(200, "content", <<"r", "i", "s", "k", " ", "h", "i", "g", "h", ";", "R", "i", "s", "k", " ", "L", "e", "v", "e", "l", ":", "\t", "M", "e", "d", "i", "u", "m">>),
    ok_gap        |-> HttpResponse(200, "content", <<"r", "i", "s", "k", " ", " ", "l", "e", "v", "e", "l", ":", "l", "o", "w">>),
    ok_lines      |-> HttpResponse(200, "content", <<"b", "r", "i", "s", "k", "\n", ":", "\n", "l", "o", "w", "e", "r">>),
    not_json      |-> HttpResponse(200, "not_json", <<"<", "h", "t", "m", "l", ">">>),
    no_choices    |-> HttpResponse(200, "no_choices", <<>>),
    null_content  |-> HttpResponse(200, "null_content", <<>>),
    r429_rate     |-> HttpResponse(429, "error", <<"s", "l", "o", "w">>),
    r429_empty    |-> HttpResponse(429, "error", <<>>),
    r429_quota    |-> HttpResponse(429, "error", <<"n", "o", " ">> \o Quota),
    r429_Quota    |-> HttpResponse(429, "error", <<"Q", "u", "o", "t", "a">>),
    r429_quota196 |-> HttpResponse(429, "error", Pad(195) \o Quota),
    r429_quota198 |-> HttpResponse(429, "error", Pad(197) \o Quota),
    r429_quota201 |-> HttpResponse(429, "error", Pad(200) \o Quota),
    r401_quota    |-> HttpResponse(401, "error", Quota),
    r500_risk     |-> HttpResponse(500, "error", <<"r", "i", "s", "k", ":", "h", "i", "g", "h">>),
    r503_long     |-> HttpResponse(503, "error", Pad(250)),
    transport     |-> [kind |-> "transport", status |-> 0, payload |-> "none", text |-> <<>>] ]

ResponseIds == DOMAIN ResponseTable

StatusText(status) ==
  CASE status = 401 -> "401" [] status = 429 -> "429" [] status = 500 -> "500" [] status = 503 -> "503"
    [] OTHER -> "status"

\* What the try block (lines 35-44) raises for a response; "none" when it
\* reaches the return.  raise_for_status raises for every non-2xx status.
Raised(resp) ==
  IF resp.kind = "transport" THEN "ConnectError"
  ELSE IF resp.status \notin 200..299 THEN "HTTPStatusError"
  ELSE CASE resp.payload = "not_json"     -> "JSONDecodeError"
         [] resp.payload = "no_choices"   -> "KeyError"
         [] resp.payload = "null_content" -> "AttributeError"
         [] OTHER                         -> "none"

\* isinstance(exc, cls) for the exception classes above.
IsInstance(exc, cls) == cls = exc \/ cls = "Exception"

\* The except clauses of the try statement, in order (lines 45 and 51).
ExceptClauses_status_only == <<"HTTPStatusError">>

ExceptClauses == <<"HTTPStatusError", "Exception">>

\* The first except clause that catches exc; "" when none does.
Handler(exc) ==
  LET hit == {i \in 1..Len(ExceptClauses) : IsInstance(exc, ExceptClauses[i])}
  IN  IF hit = {} THEN "" ELSE ExceptClauses[CHOOSE i \in hit : \A j \in hit : i <= j]

NotConfiguredText == <<"OpenAI not configured (set OPENAI_API_KEY or /run/secrets/openai_api_key).">>

RateLimitedText == <<"OpenAI rate limited repeatedly - try again shortly.">>

ApiErrorText(status, body) == <<"OpenAI API error: ", StatusText(status), " ">> \o body

ClientErrorText(exc) == <<"OpenAI client error: ", exc>>

\* The local state of one call of review_simple.  resps: the responses received,
\* sleeps: the asyncio.sleep calls made, in order.
ReviewFresh ==
  [pc |-> "begin", attempt |-> 0, resps |-> <<>>, sleeps |-> <<>>, text |-> <<>>, exc |-> ""]

Returned(r, text) == [r EXCEPT !.pc = "returned", !.text = text]

\* Lines 19-22: the key is read and stripped; without one, return at once.
review_begin(r, api_key) ==
  IF Strip(api_key) = <<>> THEN Returned(r, NotConfiguredText)
  ELSE [r EXCEPT !.pc = "attempt"]

\* Lines 46-50: the handler of HTTPStatusError.
on_status_error(r, resp) ==
  LET body == Take(resp.text, BodyPrefix)
  IN  IF resp.status = 429 /\ ~Contains(Lower(body), Quota)
        THEN [r EXCEPT !.pc = "sleep", !.sleeps = Append(@, BackoffFactor * (r.attempt + 1))]
        ELSE Returned(r, ApiErrorText(resp.status, body))

\* Lines 35-52: one pass through the loop body with the response resp.
review_attempt(r, id) ==
  LET resp == ResponseTable[id]
      got  == [r EXCEPT !.resps = Append(@, id)]
      exc  == Raised(resp)
  IN  IF exc = "none" THEN Returned(got, Strip(resp.text))
      ELSE IF Handler(exc) = "HTTPStatusError" THEN on_status_error(got, resp)
      ELSE IF Handler(exc) = "Exception" THEN Returned(got, ClientErrorText(exc))
      ELSE [got EXCEPT !.pc = "raised", !.exc = exc]

\* Variant whose loop is "while True": after the sleep always another attempt.
review_continue_unbounded(r) == [r EXCEPT !.pc = "attempt", !.attempt = @ + 1]

\* After the sleep, "continue": the next attempt, or line 53 when range(3) is used up.
review_continue(r) ==
  IF r.attempt + 1 < MaxAttempts THEN [r EXCEPT !.pc = "attempt", !.attempt = @ + 1]
  ELSE Returned([r EXCEPT !.attempt = @ + 1], RateLimitedText)

\* OPENAI_API_KEY as configured: unset, blank, or a key.
ApiKeys == {<<>>, <<" ">>, <<"s", "k", "-", "1">>}

InitReview ==
  /\ rv \in {[phase |-> "run", api_key |-> k, call |-> ReviewFresh] : k \in ApiKeys}
  /\ sg = SgIdle /\ df = DfIdle /\ OrchIdle

RvBegin ==
  /\ rv.phase = "run" /\ rv.call.pc = "begin"
  /\ rv' = [rv EXCEPT !.call = review_begin(@, rv.api_key)]
  /\ UNCHANGED <<sg, df, config, env, task, host, delivered>>

RvAttempt ==
  /\ rv.phase = "run" /\ rv.call.pc = "attempt"
  /\ \E id \in ResponseIds : rv' = [rv EXCEPT !.call = review_attempt(@, id)]
  /\ UNCHANGED <<sg, df, config, env, task, host, delivered>>

RvContinue ==
  /\ rv.phase = "run" /\ rv.call.pc = "sleep"
  /\ rv' = [rv EXCEPT !.call = review_continue(@)]
  /\ UNCHANGED <<sg, df, config, env, task, host, delivered>>

NextReview == RvBegin \/ RvAttempt \/ RvContinue

SpecReview == InitReview /\ [][NextReview]_vars

(***************************************************************************)
(* Diff assembly: fetch_pr_meta_and_diff and _truncate (app/main.py).      *)
(***************************************************************************)

\* max_chars at app/main.py line 58
Ceiling == 48000

\* "\n...[truncated]..."
TruncationMarker ==
  <<"\n", ".", ".", ".", "[", "t", "r", "u", "n", "c", "a", "t", "e", "d", "]", ".", ".", ".">>

\* Variant that makes room for the marker inside the ceiling.
truncate_within(s, max_chars) ==
  IF Len(s) <= max_chars THEN s
  ELSE SubSeq(s, 1, max_chars - Len(TruncationMarker)) \o TruncationMarker

\* Line 59.
_truncate(s, max_chars) ==
  IF Len(s) <= max_chars THEN s ELSE SubSeq(s, 1, max_chars) \o TruncationMarker

\* "sep".join(chunks)
RECURSIVE Join(_, _)
Join(chunks, sep) ==
  IF chunks = <<>> THEN <<>>
  ELSE IF Len(chunks) = 1 THEN chunks[1]
  ELSE chunks[1] \o sep \o Join(Tail(chunks), sep)

DiffGitA == <<"d", "i", "f", "f", " ", "-", "-", "g", "i", "t", " ", "a", "/">>

\* f"diff --git a/{fn} b/{fn}\n{patch}"
Chunk(fn, patch) == DiffGitA \o fn \o <<" ", "b", "/">> \o fn \o <<"\n">> \o patch

\* A file of the files listing: has_patch is FALSE when the entry has no
\* "patch" key (or null); patch may also be present and empty.
FileChange(fn, has_patch, patch) == [filename |-> fn, has_patch |-> has_patch, patch |-> patch]

\* if patch: (neither None nor "")
PatchTruthy(f) == f.has_patch /\ f.patch # <<>>

\* Lines 76-82: the chunks of the files that carry a patch, joined by a blank line.
RECURSIVE Chunks(_)
Chunks(files) ==
  IF files = <<>> THEN <<>>
  ELSE (IF PatchTruthy(files[1]) THEN <<Chunk(files[1].filename, files[1].patch)>> ELSE <<>>)
         \o Chunks(Tail(files))

diff_text(files) == Join(Chunks(files), <<"\n", "\n">>)

\* Line 72: meta["files"]
meta_files(files) == [i \in 1..Len(files) |-> files[i].filename]

\* Line 166: what the prompt carries as "Unified diff".
prompt_diff(files) == _truncate(diff_text(files), Ceiling)

\* At most this many files in a files listing.
MaxFiles == 2

FileNames == [a_py |-> <<"a", ".", "p", "y">>, b |-> <<"b">>]

\* len("diff --git a/a.py b/a.py\n")
HeaderLenAPy == Len(Chunk(FileNames.a_py, <<>>))

\* Patches by size: a short one, one that makes the chunk of a.py exactly
\* Ceiling characters long, and one that makes it one character longer.
PatchTable ==
  [ absent |-> FileChange(<<>>, FALSE, <<>>),
    empty  |-> FileChange(<<>>, TRUE, <<>>),
    small  |-> FileChange(<<>>, TRUE, <<"+", "x">>),
    fit    |-> FileChange(<<>>, TRUE, Rep("+", Ceiling - HeaderLenAPy)),
    over   |-> FileChange(<<>>, TRUE, Rep("+", Ceiling - HeaderLenAPy + 1)) ]

\* A files listing is kept in the state by the names of its entries.
FileIds == {[name |-> n, patch |-> q] : n \in DOMAIN FileNames, q \in DOMAIN PatchTable}

FileOf(id) == [PatchTable[id.patch] EXCEPT !.filename = FileNames[id.name]]

FilesOf(ids) == [i \in 1..Len(ids) |-> FileOf(ids[i])]

FileLists == UNION {[1..n -> FileIds] : n \in 0..MaxFiles}

InitDiff ==
  /\ df \in {[phase |-> "input", files |-> fl, names |-> <<>>, out |-> <<>>] : fl \in FileLists}
  /\ sg = SgIdle /\ rv = RvIdle /\ OrchIdle

Assemble ==
  /\ df.phase = "input"
  /\ df' = [df EXCEPT !.phase = "done",
                      !.names = meta_files(FilesOf(df.files)),
                      !.out = prompt_diff(FilesOf(df.files))]
  /\ UNCHANGED <<sg, rv, config, env, task, host, delivered>>

NextDiff == Assemble

SpecDiff == InitDiff /\ [][NextDiff]_vars

(***************************************************************************)
(* Risk classification and label names (app/main.py lines 181-191).        *)
(***************************************************************************)

RegexSpace == {" ", "\t", "\n", "\r"}

LevelChars ==
  [low |-> <<"l", "o", "w">>, medium |-> <<"m", "e", "d", "i", "u", "m">>, high |-> <<"h", "i", "g", "h">>]

WordAt(s, i, w) == i >= 1 /\ i + Len(w) - 1 <= Len(s) /\ SubSeq(s, i, i + Len(w) - 1) = w

\* \s* from i: the index of the first atom at or after i that is no white space.
RECURSIVE SkipSpace(_, _)
SkipSpace(s, i) == IF i <= Len(s) /\ s[i] \in RegexSpace THEN SkipSpace(s, i + 1) ELSE i

\* \s*:\s*(low|medium|high) from i: the level matched, "" when none.
LevelAfter(s, i) ==
  LET colon == SkipSpace(s, i)
  IN  IF colon <= Len(s) /\ s[colon] = ":"
        THEN LET w == SkipSpace(s, colon + 1)
                 hit == {l \in DOMAIN LevelChars : WordAt(s, w, LevelChars[l])}
             IN  IF hit = {} THEN "" ELSE CHOOSE l \in hit : TRUE
        ELSE ""

\* The pattern risk(?: level)?\s*:\s*(low|medium|high) tried at i, on lower-cased
\* text (re.I): with the optional group first, then without it.
MatchAt(s, i) ==
  IF ~WordAt(s, i, <<"r", "i", "s", "k">>) THEN ""
  ELSE LET with == IF WordAt(s, i + 4, <<" ", "l", "e", "v", "e", "l">>) THEN LevelAfter(s, i + 10) ELSE ""
       IN  IF with # "" THEN with ELSE LevelAfter(s, i + 4)

\* Variant whose default, without a match, is "low".
risk_of_default_low(ai_text) ==
  LET s == Lower(ai_text)
      hits == {i \in 1..Len(s) : MatchAt(s, i) # ""}
  IN  IF hits = {} THEN "low" ELSE MatchAt(s, CHOOSE i \in hits : \A j \in hits : i <= j)

\* Lines 181-184: re.search takes the leftmost match; "medium" without one.
risk_of(ai_text) ==
  LET s == Lower(ai_text)
      hits == {i \in 1..Len(s) : MatchAt(s, i) # ""}
  IN  IF hits = {} THEN "medium" ELSE MatchAt(s, CHOOSE i \in hits : \A j \in hits : i <= j)

\* Lines 186-191: label_map[risk][0]
label_name(risk) == <<"r", "i", "s", "k", ":", " ">> \o LevelChars[risk]

(***************************************************************************)
(* The webhook handler gitea_webhook and the host API helpers.             *)
(*                                                                         *)
(* task[t] is the local state of the request task t of the server; a task   *)
(* takes the next delivery when it has answered the last one.  host is the *)
(* git host's state for the one repository: its labels, and per issue the   *)
(* labels attached and the comments.  Each await of a host call is a step.  *)
(***************************************************************************)

\* Request tasks the server may run at once.
MaxTasks == 2

\* Deliveries received in one behaviour.
MaxDeliveries == 1

Tasks == 1..MaxTasks

\* Issues of the repository, and those among them that are pull requests with
\* deliveries.
Issues == {7, 8}

PRs == {7}

ReviewActions == {"opened", "synchronized", "reopened"}

Request(headers, body, event, action, pr) ==
  [headers |-> headers, body |-> body, event |-> event, action |-> action, pr |-> pr]

NoRequest == Request([n \in HeaderNames |-> NoHeader], "", "", "", 0)

\* Signature headers of the deliveries: none, a native hex digest of the body
\* under the shared secret, and a native digest under another key.
DeliveryHeaders ==
  { [n \in HeaderNames |-> NoHeader],
    OnlyHeader("X-Gitea-Signature", HeaderValue("", HexDigest("sha256", "s3cret", "body1"))),
    OnlyHeader("X-Gitea-Signature", HeaderValue("", HexDigest("sha256", "other", "body1"))) }

\* X-Gitea-Event values and payload actions ("none": the payload has no action).
Events == {"pull_request", "push"}

Actions == ReviewActions \cup {"closed", "none"}

Requests ==
  {Request(h, "body1", e, a, n) : h \in DeliveryHeaders, e \in Events, a \in Actions, n \in PRs}

\* Outcomes of one host API call: a 2xx answer, a non-2xx answer
\* (raise_for_status raises HTTPStatusError), no answer (a transport error).
Outcomes == {"ok", "http_error", "transport_error"}

\* Files listings the host may return: the one of the end-to-end scenario
\* (a file with a patch, a file without) and an empty one.
Listings ==
  { <<[name |-> "a_py", patch |-> "small"], [name |-> "b", patch |-> "absent"]>>, <<>> }

\* Completion responses seen by the handler: one of each outcome class.
HandlerResponses ==
  {"ok_high", "ok_low_ws", "no_choices", "r429_rate", "r429_quota", "r500_risk", "transport"}

Label(id, name) == [id |-> id, name |-> name]

Host(labels) ==
  [ labels |-> labels,
    next_id |-> Cardinality(labels) + 1,
    issue_labels |-> [n \in Issues |-> {}],
    comments |-> [n \in Issues |-> <<>>] ]

\* Labels the repository holds before the first delivery: none, or a label
\* "Risk: Medium" somebody made by hand.
InitialLabels ==
  { {}, {Label(1, <<"R", "i", "s", "k", ":", " ">> \o <<"M", "e", "d", "i", "u", "m">>)} }

IdleTask ==
  [ pc |-> "idle", req |-> NoRequest, status |-> 0, reply |-> "", calls |-> <<>>,
    files |-> <<>>, review |-> ReviewFresh, ai_text |-> <<>>, risk |-> "", lb |-> 0,
    failed_at |-> "", past |-> <<>> ]

Terminal == {"rejected", "ignored", "completed", "failed"}

\* One request sent to the host API.
Call(op, pr, outcome, arg) == [op |-> op, pr |-> pr, outcome |-> outcome, arg |-> arg]

\* raise HTTPException(status_code=401, detail="invalid signature")
Reject(tk) == [tk EXCEPT !.pc = "rejected", !.status = 401, !.reply = "invalid signature"]

\* Variant in which the exception is swallowed and the handler answers as if
\* every step had succeeded.
Fail_swallowed(tk) == [tk EXCEPT !.pc = "completed", !.status = 200, !.reply = "posted", !.failed_at = tk.pc]

\* An exception that leaves the handler: the framework answers 500.
Fail(tk) == [tk EXCEPT !.pc = "failed", !.status = 500, !.reply = "Internal Server Error", !.failed_at = tk.pc]

\* Line 199: JSONResponse({"ok": True, "ignored": event})
Ignore(tk) == [tk EXCEPT !.pc = "ignored", !.status = 200, !.reply = "ignored"]

\* Line 198: JSONResponse({"ok": True, "posted": "comment"})
Complete(tk) == [tk EXCEPT !.pc = "completed", !.status = 200, !.reply = "posted"]

Logged(tk, call) == [tk EXCEPT !.calls = Append(@, call)]

\* Lines 171-176: the comment body.
CommentHeading == "**AI Reviewer**"

comment_body(pr, files, ai_text) ==
  <<CommentHeading, "- PR: #" \o ToString(pr), "- Files: " \o ToString(Len(files))>> \o ai_text

\* Variant that compares the names letter for letter.
find_label_exact(labels, name) == {lb \in labels : lb.name = name}

\* Variant that never finds the label.
find_label_nothing(labels, name) == {lb \in labels : FALSE}

\* Lines 32-34: the labels whose name equals name, ignoring case.
find_label(labels, name) == {lb \in labels : Lower(lb.name) = Lower(name)}

\* The environment of one specification: the tasks that serve deliveries, how
\* many deliveries arrive, and what requests, listings and completion
\* responses may occur.
Env(tasks, n, requests, listings, responses) ==
  [tasks |-> tasks, max_deliveries |-> n, requests |-> requests, listings |-> listings, responses |-> responses]

InitHandler(e) ==
  /\ config \in {[secret |-> s, api_key |-> k] : s \in Secrets, k \in {<<>>, <<"s", "k", "-", "1">>}}
  /\ env = e
  /\ task = [t \in Tasks |-> IdleTask]
  /\ host \in {Host(ls) : ls \in InitialLabels}
  /\ delivered = 0
  /\ sg = SgIdle /\ rv = RvIdle /\ df = DfIdle

\* Deliveries served one after the other by one task.
Init == InitHandler(Env({1}, MaxDeliveries, Requests, Listings, HandlerResponses))

Others == <<sg, rv, df, config, env>>

Set(t, tk) == task' = [task EXCEPT ![t] = tk]

\* What is remembered of a delivery the task has answered: the issue, the risk
\* level it arrived at ("" when it did not get that far) and how it ended.
Answered(tk) == [pr |-> tk.req.pr, risk |-> tk.risk, pc |-> tk.pc]

\* A delivery arrives (line 124) at a task that is free.  The handler keeps
\* nothing of the delivery it answered before; past is the record of it.
Receive(t) ==
  /\ task[t].pc \in Terminal \cup {"idle"}
  /\ delivered < env.max_deliveries
  /\ \E r \in env.requests :
       Set(t, [IdleTask EXCEPT !.pc = "received", !.req = r,
                               !.past = IF task[t].pc \in Terminal
                                          THEN Append(task[t].past, Answered(task[t]))
                                          ELSE task[t].past])
  /\ delivered' = delivered + 1
  /\ UNCHANGED <<host, Others>>

\* Variant that checks the signature and goes on whatever the result.
VerifySignature_never_rejects(t) ==
  /\ task[t].pc = "received"
  /\ Set(t, [task[t] EXCEPT !.pc = "verified"])
  /\ UNCHANGED <<host, delivered, Others>>

\* Lines 125-129.
VerifySignature(t) ==
  /\ task[t].pc = "received"
  /\ Set(t, IF sig_ok(config.secret, task[t].req.body, task[t].req.headers)
              THEN [task[t] EXCEPT !.pc = "verified"]
              ELSE Reject(task[t]))
  /\ UNCHANGED <<host, delivered, Others>>

\* Variant that reviews every pull_request delivery, whatever its action.
eligible_any_action(req) == req.event = "pull_request"

\* Lines 135-137.
eligible(req) == req.event = "pull_request" /\ req.action \in ReviewActions

\* Lines 131-147 and 199.
Route(t) ==
  /\ task[t].pc = "verified"
  /\ Set(t, IF eligible(task[t].req) THEN [task[t] EXCEPT !.pc = "fetch_pr"] ELSE Ignore(task[t]))
  /\ UNCHANGED <<host, delivered, Others>>

\* Line 63: gitea_get(/pulls/{index}).
FetchPR(t) ==
  /\ task[t].pc = "fetch_pr"
  /\ \E o \in Outcomes :
       LET tk == Logged(task[t], Call("get_pr", task[t].req.pr, o, <<>>))
       IN  Set(t, IF o = "ok" THEN [tk EXCEPT !.pc = "fetch_files"] ELSE Fail(tk))
  /\ UNCHANGED <<host, delivered, Others>>

\* Lines 64-84 and 150-167: gitea_get(/pulls/{index}/files), meta, diff, prompt.
FetchFiles(t) ==
  /\ task[t].pc = "fetch_files"
  /\ \E o \in Outcomes, fl \in env.listings :
       LET tk == Logged(task[t], Call("get_files", task[t].req.pr, o, <<>>))
       IN  Set(t, IF o = "ok" THEN [tk EXCEPT !.pc = "review", !.files = meta_files(FilesOf(fl))]
                  ELSE Fail(tk))
  /\ UNCHANGED <<host, delivered, Others>>

\* Variant in which a diagnostic from the review call stops the handler.
after_review_strict(tk, r) ==
  IF r.pc = "returned" /\ r.text # <<>> /\ r.text[1] \notin {"OpenAI API error: ", "OpenAI client error: "}
    THEN [tk EXCEPT !.review = r, !.ai_text = r.text, !.pc = "post_comment"]
  ELSE IF r.pc \in {"returned", "raised"} THEN Fail([tk EXCEPT !.review = r])
  ELSE [tk EXCEPT !.review = r]

\* Variant that goes from the review straight to the label, the comment left out.
after_review_labels_first(tk, r) ==
  IF r.pc = "returned"
    THEN [tk EXCEPT !.review = r, !.ai_text = r.text, !.risk = risk_of(r.text), !.pc = "list_labels"]
  ELSE IF r.pc = "raised" THEN Fail([tk EXCEPT !.review = r])
  ELSE [tk EXCEPT !.review = r]

\* Line 169: what the handler does with the state r of the review call: go on
\* with the text returned, or fail with the exception raised.
after_review(tk, r) ==
  IF r.pc = "returned" THEN [tk EXCEPT !.review = r, !.ai_text = r.text, !.pc = "post_comment"]
  ELSE IF r.pc = "raised" THEN Fail([tk EXCEPT !.review = r])
  ELSE [tk EXCEPT !.review = r]

ReviewBegin(t) ==
  /\ task[t].pc = "review" /\ task[t].review.pc = "begin"
  /\ Set(t, after_review(task[t], review_begin(task[t].review, config.api_key)))
  /\ UNCHANGED <<host, delivered, Others>>

ReviewAttempt(t) ==
  /\ task[t].pc = "review" /\ task[t].review.pc = "attempt"
  /\ \E id \in env.responses : Set(t, after_review(task[t], review_attempt(task[t].review, id)))
  /\ UNCHANGED <<host, delivered, Others>>

ReviewContinue(t) ==
  /\ task[t].pc = "review" /\ task[t].review.pc = "sleep"
  /\ Set(t, after_review(task[t], review_continue(task[t].review)))
  /\ UNCHANGED <<host, delivered, Others>>

\* Variant that posts the comment on the issue after the one of the PR.
comment_issue_off_by_one(req) == req.pr + 1

\* Line 178: the issue the comment goes to.
comment_issue(req) == req.pr

\* Lines 171-191: gitea_post(/issues/{index}/comments), then the risk level.
PostComment(t) ==
  /\ task[t].pc = "post_comment"
  /\ \E o \in Outcomes :
       LET body == comment_body(task[t].req.pr, task[t].files, task[t].ai_text)
           n    == comment_issue(task[t].req)
           tk   == Logged(task[t], Call("post_comment", n, o, body))
       IN  IF o = "ok"
             THEN /\ Set(t, [tk EXCEPT !.pc = "list_labels", !.risk = risk_of(task[t].ai_text)])
                  /\ host' = [host EXCEPT !.comments[n] = Append(@, body)]
             ELSE /\ Set(t, Fail(tk))
                  /\ host' = host
  /\ UNCHANGED <<delivered, Others>>

\* ensure_label, lines 31-34: gitea_get(/labels) and the search by name.
ListLabels(t) ==
  /\ task[t].pc = "list_labels"
  /\ \E o \in Outcomes :
       LET tk    == Logged(task[t], Call("list_labels", 0, o, <<>>))
           found == find_label(host.labels, label_name(task[t].risk))
       IN  IF o # "ok" THEN Set(t, Fail(tk))
           ELSE IF found = {} THEN Set(t, [tk EXCEPT !.pc = "create_label"])
           ELSE \E lb \in found : Set(t, [tk EXCEPT !.pc = "attach_label", !.lb = lb.id])
  /\ UNCHANGED <<host, delivered, Others>>

\* ensure_label, lines 36-39: gitea_post_json(/labels); the host gives the id.
CreateLabel(t) ==
  /\ task[t].pc = "create_label"
  /\ \E o \in Outcomes :
       LET name == label_name(task[t].risk)
           tk   == Logged(task[t], Call("create_label", 0, o, name))
       IN  IF o = "ok"
             THEN /\ Set(t, [tk EXCEPT !.pc = "attach_label", !.lb = host.next_id])
                  /\ host' = [host EXCEPT !.labels = @ \cup {Label(host.next_id, name)},
                                          !.next_id = @ + 1]
             ELSE /\ Set(t, Fail(tk))
                  /\ host' = host
  /\ UNCHANGED <<delivered, Others>>

\* Variant without the except clause: any failure of the first request is final.
AttachLabel_no_fallback(t) ==
  /\ task[t].pc = "attach_label"
  /\ \E o \in Outcomes :
       LET n  == task[t].req.pr
           tk == Logged(task[t], Call("attach_label", n, o, <<"list", ToString(task[t].lb)>>))
       IN  /\ Set(t, IF o = "ok" THEN Complete(tk) ELSE Fail(tk))
           /\ host' = IF o = "ok" THEN [host EXCEPT !.issue_labels[n] = @ \cup {task[t].lb}] ELSE host
  /\ UNCHANGED <<delivered, Others>>

\* add_label_to_issue, line 44: the bare list of ids.
AttachLabel(t) ==
  /\ task[t].pc = "attach_label"
  /\ \E o \in Outcomes :
       LET n  == task[t].req.pr
           tk == Logged(task[t], Call("attach_label", n, o, <<"list", ToString(task[t].lb)>>))
       IN  /\ Set(t, CASE o = "ok" -> Complete(tk)
                       [] o = "http_error" -> [tk EXCEPT !.pc = "attach_label_again"]
                       [] o = "transport_error" -> Fail(tk))
           /\ host' = IF o = "ok" THEN [host EXCEPT !.issue_labels[n] = @ \cup {task[t].lb}] ELSE host
  /\ UNCHANGED <<delivered, Others>>

\* add_label_to_issue, lines 45-47: after HTTPStatusError, the {"labels": [id]} shape.
AttachLabelAgain(t) ==
  /\ task[t].pc = "attach_label_again"
  /\ \E o \in Outcomes :
       LET n  == task[t].req.pr
           tk == Logged(task[t], Call("attach_label", n, o, <<"object", ToString(task[t].lb)>>))
       IN  /\ Set(t, IF o = "ok" THEN Complete(tk) ELSE Fail(tk))
           /\ host' = IF o = "ok" THEN [host EXCEPT !.issue_labels[n] = @ \cup {task[t].lb}] ELSE host
  /\ UNCHANGED <<delivered, Others>>

gitea_webhook(t) ==
  \/ Receive(t)
  \/ VerifySignature(t)
  \/ Route(t)
  \/ FetchPR(t)
  \/ FetchFiles(t)
  \/ ReviewBegin(t)
  \/ ReviewAttempt(t)
  \/ ReviewContinue(t)
  \/ PostComment(t)
  \/ ListLabels(t)
  \/ CreateLabel(t)
  \/ AttachLabel(t)
  \/ AttachLabelAgain(t)

Next == \E t \in env.tasks : gitea_webhook(t)

Spec == Init /\ [][Next]_vars

\* Deliveries that pass the signature check and are reviewed: the webhook of one
\* pull request event, as the host sends and sends again.
Redeliveries ==
  {r \in Requests : /\ r.headers["X-Gitea-Signature"].hex = HexDigest("sha256", "s3cret", r.body)
                    /\ r.event = "pull_request" /\ r.action = "synchronized"}

\* Two outcomes of the review call that give different risk levels (high, and
\* medium after three rate-limited attempts).
RedeliveryResponses == {"ok_high", "r429_rate"}

\* The same webhook delivered again and again, each delivery answered before
\* the next arrives.
InitRedelivery ==
  InitHandler(Env({1}, MaxDeliveries + 2, Redeliveries, {<<>>}, RedeliveryResponses))

SpecRedelivery == InitRedelivery /\ [][Next]_vars

\* Deliveries of the same webhook served at once, one by each request task: the
\* awaits of the handler let the tasks interleave at every host API call.
InitConcurrent ==
  InitHandler(Env(Tasks, MaxTasks, Redeliveries, {<<>>}, RedeliveryResponses))

SpecConcurrent == InitConcurrent /\ [][Next]_vars

\* Deliveries of each kind: one that fails the signature check (when a secret is
\* set), one that is ignored, one that is reviewed.
LiveRequests ==
  { Request([n \in HeaderNames |-> NoHeader], "body1", "pull_request", "opened", 7),
    Request(OnlyHeader("X-Gitea-Signature", HeaderValue("", HexDigest("sha256", "s3cret", "body1"))),
            "body1", "push", "none", 7),
    Request(OnlyHeader("X-Gitea-Signature", HeaderValue("", HexDigest("sha256", "s3cret", "body1"))),
            "body1", "pull_request", "opened", 7) }

LiveResponses == {"ok_plain", "r429_rate", "transport"}

\* The request task that serves them.
LiveTasks == {1}

InitLive == InitHandler(Env(LiveTasks, MaxDeliveries, LiveRequests, {<<>>}, LiveResponses))

\* The steps of the handler for the delivery of task t: each is the return of
\* the call the task awaits (asyncio resumes a task whose awaited call has
\* returned; every call returns, with a response or with its timeout).
Process(t) ==
  /\ t \in env.tasks
  /\ \/ VerifySignature(t) \/ Route(t) \/ FetchPR(t) \/ FetchFiles(t)
     \/ ReviewBegin(t) \/ ReviewAttempt(t) \/ ReviewContinue(t)
     \/ PostComment(t) \/ ListLabels(t) \/ CreateLabel(t) \/ AttachLabel(t) \/ AttachLabelAgain(t)

SpecLive == InitLive /\ [][Next]_vars /\ \A t \in LiveTasks : WF_vars(Process(t))

\* Review texts for the risk classification: the level stated once, twice,
\* late, with white space and line breaks, not at all, and the diagnostics of
\* the failed review calls.
ClassifyResponses ==
  { "ok_high", "ok_low_ws", "ok_plain", "ok_no_info", "ok_two", "ok_late", "ok_gap", "ok_lines",
    "r500_risk", "r429_rate", "r429_quota", "no_choices", "transport" }

\* One delivery: the handler keeps nothing of a delivery, so the level of a text
\* does not depend on the deliveries before it.
InitClassify == InitHandler(Env({1}, 1, Redeliveries, {<<>>}, ClassifyResponses))

SpecClassify == InitClassify /\ [][Next]_vars

(***************************************************************************)
(* Signature claims (checked under SpecSig).                               *)
(***************************************************************************)

\* The header v, sent under the name n, carries the HMAC of exactly body b under
\* secret s in the form that header family accepts: SHA-256, bare or prefixed,
\* for the native headers; prefixed SHA-256 for X-Hub-Signature-256; prefixed
\* SHA-1 for X-Hub-Signature.
Carries(n, v, s, b) ==
  /\ v.present
  /\ CASE n \in {"X-Gitea-Signature", "X-Gogs-Signature"} ->
            v.hex = HexDigest("sha256", s, b) /\ v.pre \in Sha256Prefixes \cup {""}
       [] n = "X-Hub-Signature-256" ->
            v.hex = HexDigest("sha256", s, b) /\ v.pre \in Sha256Prefixes
       [] n = "X-Hub-Signature" ->
            v.hex = HexDigest("sha1", s, b) /\ v.pre \in Sha1Prefixes

\* The header is one sig_ok would look at: non-empty, and for the two X-Hub
\* headers carrying the prefix of its scheme.
Usable(n, v) ==
  /\ v.present /\ ~(v.pre = "" /\ v.hex = NoHex)
  /\ n = "X-Hub-Signature-256" => v.pre \in Sha256Prefixes
  /\ n = "X-Hub-Signature" => v.pre \in Sha1Prefixes

HeaderOrder == <<"X-Gitea-Signature", "X-Gogs-Signature", "X-Hub-Signature-256", "X-Hub-Signature">>

SgChecked == sg.phase = "done" /\ sg.secret # ""

\* C5 as stated: with a non-empty secret, sig_ok returns true whenever at least
\* one of the three header families carries a digest that validates for the body.
C5_AnyValidFamilyAccepted ==
  (SgChecked /\ \E n \in HeaderNames : Carries(n, sg.headers[n], sg.secret, sg.body)) => sg.ok

\* C5 amended: with a non-empty secret, the first usable header in the order
\* X-Gitea-Signature, X-Gogs-Signature, X-Hub-Signature-256, X-Hub-Signature
\* decides alone: sig_ok is true exactly when that header carries a validating
\* digest, and false when no header is usable.
C5_FirstUsableHeaderDecides ==
  SgChecked =>
    LET usable == {i \in 1..4 : Usable(HeaderOrder[i], sg.headers[HeaderOrder[i]])}
    IN  IF usable = {} THEN ~sg.ok
        ELSE LET first == CHOOSE i \in usable : \A j \in usable : i <= j
             IN  sg.ok <=> Carries(HeaderOrder[first], sg.headers[HeaderOrder[first]], sg.secret, sg.body)

\* C5 witness: an invalid native header comes before a valid X-Hub-Signature-256
\* header, and the request is rejected.
C5_Witness ==
  /\ SgChecked /\ ~sg.ok
  /\ Usable("X-Gitea-Signature", sg.headers["X-Gitea-Signature"])
  /\ ~Carries("X-Gitea-Signature", sg.headers["X-Gitea-Signature"], sg.secret, sg.body)
  /\ Carries("X-Hub-Signature-256", sg.headers["X-Hub-Signature-256"], sg.secret, sg.body)

\* C6: with a non-empty secret, sig_ok is true only if some accepted header
\* carries the HMAC of exactly the body under the secret (SHA-256 for the native
\* and X-Hub-Signature-256 headers, SHA-1 for the legacy one); a native
\* "sha256=" + hex signature over the body is accepted; the same headers with
\* any other body are rejected; a request with no signature header is rejected.
C6_AcceptsOnlyHmacOfBody ==
  SgChecked =>
    /\ sg.ok => \E n \in HeaderNames : Carries(n, sg.headers[n], sg.secret, sg.body)
    /\ (\E n \in {"X-Gitea-Signature", "X-Gogs-Signature"} :
          sg.headers = OnlyHeader(n, HeaderValue("sha256=", HexDigest("sha256", sg.secret, sg.body))))
         => sg.ok
    /\ sg.ok => \A b \in Bodies \ {sg.body} : ~sig_ok(sg.secret, b, sg.headers)
    /\ (\A n \in HeaderNames : ~sg.headers[n].present) => ~sg.ok

\* C6 witness: a request accepted on a legacy SHA-1 header.
C6_Witness ==
  /\ SgChecked /\ sg.ok
  /\ ~sg.headers["X-Gitea-Signature"].present /\ ~sg.headers["X-Gogs-Signature"].present
  /\ Carries("X-Hub-Signature", sg.headers["X-Hub-Signature"], sg.secret, sg.body)

(***************************************************************************)
(* Handler claims (checked under Spec).                                    *)
(***************************************************************************)

Range(q) == {q[i] : i \in 1..Len(q)}

Count(calls, op) == Cardinality({i \in 1..Len(calls) : calls[i].op = op})

\* The delivery of task t passes the signature check.
SignatureValid(t) == sig_ok(config.secret, task[t].req.body, task[t].req.headers)

\* The delivery of task t is a pull_request event opened, synchronized or reopened.
ReviewEvent(t) == task[t].req.event = "pull_request" /\ task[t].req.action \in ReviewActions

RiskLabelNames == {label_name(l) : l \in {"low", "medium", "high"}}

\* C1: a signature-valid pull_request delivery (opened, synchronized, reopened)
\* in which every host API call succeeded has ended, when it has ended, as
\* completed: a comment headed "AI Reviewer" is on the PR's issue, a label named
\* risk: low, risk: medium or risk: high (letter case aside) is attached to that
\* issue, and the delivery made exactly one request each to fetch the PR, fetch
\* the files, list the labels, attach the label and post the comment, and at
\* most one to create the label, whatever the review call returned.
C1_EndToEnd ==
  \A t \in env.tasks :
    LET tk == task[t]
        allOk == \A i \in 1..Len(tk.calls) : tk.calls[i].outcome = "ok"
    IN  (tk.pc \in Terminal /\ SignatureValid(t) /\ ReviewEvent(t) /\ allOk) =>
               /\ tk.pc = "completed" /\ tk.status = 200 /\ tk.reply = "posted"
               /\ \E c \in Range(host.comments[tk.req.pr]) :
                    c[1] = CommentHeading /\ SubSeq(c, 4, Len(c)) = tk.review.text
               /\ \E lb \in host.labels :
                    lb.id \in host.issue_labels[tk.req.pr] /\ Lower(lb.name) \in RiskLabelNames
               /\ \A op \in {"get_pr", "get_files", "list_labels", "attach_label", "post_comment"} :
                    Count(tk.calls, op) = 1
               /\ Count(tk.calls, "create_label") <= 1
               /\ \A i \in 1..Len(tk.calls) :
                    tk.calls[i].op \in {"get_pr", "get_files", "attach_label", "post_comment"}
                      => tk.calls[i].pr = tk.req.pr

\* C1 witness: the end-to-end scenario, a synchronized delivery with two changed
\* files, has completed with the label risk: high attached.
C1_Witness ==
  \E t \in env.tasks :
    /\ task[t].pc = "completed" /\ task[t].req.action = "synchronized"
    /\ config.secret # "" /\ Len(task[t].files) = 2 /\ task[t].risk = "high"
    /\ \A i \in 1..Len(task[t].calls) : task[t].calls[i].outcome = "ok"

\* C2: a delivery whose signature check fails is rejected with 401 and stays
\* so; it makes no host API call and no completion call, and rejecting it
\* leaves the host as it is.
C2_RejectedDoesNothing ==
  /\ [](\A t \in env.tasks :
          (task[t].pc \notin {"idle", "received"} /\ ~SignatureValid(t)) =>
            /\ task[t].pc = "rejected" /\ task[t].status = 401
            /\ task[t].calls = <<>> /\ task[t].review = ReviewFresh)
  /\ [][\A t \in env.tasks :
          /\ task'[t].pc = "rejected" => host' = host
          /\ task[t].pc = "rejected" => task'[t] = task[t] \/ task'[t].pc = "received"]_vars

\* C2 witness: a delivery signed with another key has been rejected.
C2_Witness ==
  \E t \in env.tasks :
    /\ task[t].pc = "rejected" /\ task[t].status = 401
    /\ task[t].req.headers["X-Gitea-Signature"].present
    /\ ReviewEvent(t)

\* C3: a verified delivery that is no pull_request event, or whose action is
\* not opened, synchronized or reopened, is answered 200 "ignored"; it makes no
\* host API call and no completion call, and answering it leaves the host's
\* comments and labels as they are.
C3_IgnoredHasNoEffect ==
  /\ [](\A t \in env.tasks :
          (task[t].pc \notin {"idle", "received", "verified"} /\ SignatureValid(t) /\ ~ReviewEvent(t)) =>
            /\ task[t].pc = "ignored" /\ task[t].status = 200 /\ task[t].reply = "ignored"
            /\ task[t].calls = <<>> /\ task[t].review = ReviewFresh)
  /\ [][\A t \in env.tasks : task'[t].pc \in {"verified", "ignored"} => host' = host]_vars

\* C3 witness: a pull_request delivery with action closed has been ignored.
C3_Witness ==
  \E t \in env.tasks :
    /\ task[t].pc = "ignored" /\ task[t].req.event = "pull_request" /\ task[t].req.action = "closed"
    /\ config.secret # ""

\* The delivery of task t made the call op and the host answered 2xx.
Succeeded(t, op) == \E i \in 1..Len(task[t].calls) : task[t].calls[i].op = op /\ task[t].calls[i].outcome = "ok"

\* C4 as stated: on every processed event the PR gets a comment: a processed
\* delivery that has ended has a comment on its PR.
C4_AlwaysComment ==
  \A t \in env.tasks :
    (task[t].pc \in Terminal /\ SignatureValid(t) /\ ReviewEvent(t)) => host.comments[task[t].req.pr] # <<>>

\* C4 amended: on every processed event whose PR and files fetches succeeded the
\* review call has returned (with a key: after a 2xx answer, an HTTP error, a
\* transport failure or three rate-limited attempts; without one: at once) and
\* the comment post was issued on the PR's issue with the returned review text
\* or diagnostic as body; the PR holds that comment when the post succeeded.
C4_CommentIssuedAfterFetch ==
  \A t \in env.tasks :
    LET tk == task[t]
    IN  (tk.pc \in Terminal /\ SignatureValid(t) /\ ReviewEvent(t)
           /\ Succeeded(t, "get_pr") /\ Succeeded(t, "get_files")) =>
          /\ tk.review.pc = "returned"
          /\ tk.review.text # <<>>
          /\ \E i \in 1..Len(tk.calls) :
               /\ tk.calls[i].op = "post_comment" /\ tk.calls[i].pr = tk.req.pr
               /\ tk.calls[i].arg[1] = CommentHeading
               /\ SubSeq(tk.calls[i].arg, 4, Len(tk.calls[i].arg)) = tk.review.text
               /\ tk.calls[i].outcome = "ok" => tk.calls[i].arg \in Range(host.comments[tk.req.pr])

\* C4 witness: after three rate-limited attempts the diagnostic has been posted
\* as the comment of the PR.
C4_Witness ==
  \E t \in env.tasks :
    /\ task[t].pc = "completed" /\ Len(task[t].review.resps) = MaxAttempts
    /\ task[t].review.text = RateLimitedText
    /\ \E c \in Range(host.comments[task[t].req.pr]) : SubSeq(c, 4, Len(c)) = RateLimitedText

(***************************************************************************)
(* Review-call claims (checked under SpecReview).                          *)
(***************************************************************************)

RvResp(i) == ResponseTable[rv.call.resps[i]]

RvIs429(i) == RvResp(i).kind = "http" /\ RvResp(i).status = 429

\* The body of response i mentions quota, anywhere and in any letter case.
RvMentionsQuota(i) == Contains(Lower(RvResp(i).text), Quota)

Diagnostics == {"OpenAI API error: ", "OpenAI client error: "}

\* C7: review_simple never fails outward: after a transport failure, an HTTP
\* error status, a malformed or unexpected response body or a missing
\* credential it has raised nothing, and what it returns is the stripped review
\* text of a well-formed answer and a diagnostic text otherwise.
C7_ReviewNeverRaises ==
  rv.phase = "run" =>
    /\ rv.call.pc # "raised"
    /\ rv.call.pc = "returned" =>
         LET n == Len(rv.call.resps)
         IN  IF n = 0 THEN rv.call.text = NotConfiguredText
             ELSE IF Raised(RvResp(n)) = "none" THEN rv.call.text = Strip(RvResp(n).text)
             ELSE rv.call.text = RateLimitedText \/ rv.call.text[1] \in Diagnostics

\* C7 witness: a 2xx answer without "choices" has been turned into a diagnostic.
C7_Witness ==
  /\ rv.phase = "run" /\ rv.call.pc = "returned"
  /\ Len(rv.call.resps) = 2 /\ rv.call.resps[2] = "no_choices"
  /\ rv.call.text = ClientErrorText("KeyError")

\* C8: when every response is a 429 lacking "quota" the call makes exactly 3
\* attempts and returns the rate-limited diagnostic; when the first response is
\* a 429 containing "quota" it makes exactly 1 attempt; no call makes more than
\* 3 attempts.
C8_AttemptCounts ==
  rv.phase = "run" =>
    LET n == Len(rv.call.resps)
    IN  /\ (rv.call.pc = "returned" /\ n >= 1 /\ \A i \in 1..n : RvIs429(i) /\ ~RvMentionsQuota(i))
             => n = MaxAttempts /\ rv.call.text = RateLimitedText
        /\ (n >= 1 /\ RvIs429(1) /\ RvMentionsQuota(1)) => n = 1
        /\ n <= MaxAttempts

\* C9: a response is followed by another attempt only if it is a 429 whose body
\* does not mention quota at any position; any other HTTP error status is
\* returned after that attempt as the diagnostic with the status code and at
\* most the first 200 characters of the body.
C9_RetryOnlyWithoutQuota ==
  rv.phase = "run" =>
    LET n == Len(rv.call.resps)
        retried == IF rv.call.pc = "sleep" THEN 1..n ELSE 1..(n - 1)
    IN  /\ \A i \in retried : RvIs429(i) /\ ~RvMentionsQuota(i)
        /\ (n >= 1 /\ Raised(RvResp(n)) = "HTTPStatusError" /\ RvResp(n).status # 429)
             => /\ rv.call.pc = "returned"
                /\ rv.call.text = <<"OpenAI API error: ", StatusText(RvResp(n).status), " ">>
                                     \o Take(RvResp(n).text, BodyPrefix)
                /\ Len(rv.call.text) <= 3 + BodyPrefix

(***************************************************************************)
(* Diff claims (checked under SpecDiff).                                   *)
(***************************************************************************)

\* C10: the diff text put into the prompt never exceeds the ceiling of 48,000
\* characters, whatever the files and the lengths of their patches.
C10_DiffWithinCeiling == df.phase = "done" => Len(df.out) <= Ceiling

(***************************************************************************)
(* Label claims (checked under SpecRedelivery and SpecConcurrent).         *)
(***************************************************************************)

Last(q) == q[Len(q)]

\* No two labels of the repository have names that are equal ignoring case.
NoCaseDuplicates(labels) == \A a, b \in labels : Lower(a.name) = Lower(b.name) => a = b

\* The labels named name, ignoring case, that the repository holds.
Named(name) == {lb \in host.labels : Lower(lb.name) = Lower(name)}

\* The risk:* labels the issue n carries.
RiskLabelsOf(n) ==
  {lb \in host.labels : lb.id \in host.issue_labels[n] /\ Take(Lower(lb.name), 5) = <<"r", "i", "s", "k", ":">>}

\* C11: ensure_label is idempotent by name: in deliveries served one after the
\* other, starting from a repository without two labels of the same name
\* ignoring case, a create request is issued only when no label of the
\* repository matches the requested name ignoring case, and the repository
\* never holds two labels of the same name ignoring case.
C11_EnsureLabelIdempotent ==
  /\ [](NoCaseDuplicates(host.labels))
  /\ [][\A t \in env.tasks :
          (task[t].pc = "create_label" /\ task'[t].pc # "create_label")
            => Named(label_name(task[t].risk)) = {}]_vars

\* C11 witness: the repository held a hand-made label "Risk: Medium"; two
\* deliveries in a row arrived at the level medium, and the second has
\* completed without a create request, one label of that name being there.
C11_Witness ==
  \E t \in env.tasks :
    /\ task[t].pc = "completed" /\ task[t].risk = "medium"
    /\ Count(task[t].calls, "create_label") = 0
    /\ task[t].past # <<>> /\ Last(task[t].past).pc = "completed" /\ Last(task[t].past).risk = "medium"
    /\ \E lb \in host.labels : lb.name # label_name("medium") /\ Named(label_name("medium")) = {lb}

\* C12: repeated or concurrent deliveries of the same webhook never duplicate
\* the risk label: when two deliveries served by different tasks have completed
\* with the same risk level, the repository holds exactly one label of that name.
C12_NoDuplicateRiskLabel ==
  \A t, u \in env.tasks :
    (t # u /\ task[t].pc = "completed" /\ task[u].pc = "completed" /\ task[t].risk = task[u].risk)
      => Cardinality(Named(label_name(task[t].risk))) = 1

\* The delivery before the one task t serves now was for the same issue, arrived
\* at the same risk level and completed.
AppliedTwice(t) ==
  /\ task[t].pc = "completed" /\ task[t].past # <<>>
  /\ Last(task[t].past) = [pr |-> task[t].req.pr, risk |-> task[t].risk, pc |-> "completed"]

\* C13 as stated: after the risk label was applied twice in succession for the
\* same issue and the same level, the repository holds exactly one label of that
\* name and the issue carries exactly one risk:* label.
C13_ApplyTwiceOneLabel ==
  \A t \in env.tasks :
    AppliedTwice(t) =>
      /\ Cardinality(Named(label_name(task[t].risk))) = 1
      /\ Cardinality(RiskLabelsOf(task[t].req.pr)) = 1

\* C13 amended: the same, for an issue to which no label of another risk level
\* was applied before; in every case the repository holds exactly one label of
\* that name and the issue carries exactly one label of that name.
C13_ApplyTwiceOnFreshIssue ==
  \A t \in env.tasks :
    AppliedTwice(t) =>
      /\ Cardinality(Named(label_name(task[t].risk))) = 1
      /\ Cardinality(RiskLabelsOf(task[t].req.pr) \cap Named(label_name(task[t].risk))) = 1
      /\ (\A i \in 1..Len(task[t].past) :
             (task[t].past[i].pc = "completed" /\ task[t].past[i].pr = task[t].req.pr)
               => task[t].past[i].risk = task[t].risk)
           => Cardinality(RiskLabelsOf(task[t].req.pr)) = 1

\* C13 witness: the level high was applied twice in succession to an issue
\* that had no risk label before.
C13_Witness ==
  \E t \in env.tasks :
    /\ AppliedTwice(t) /\ task[t].risk = "high" /\ Len(task[t].past) = 1
    /\ Cardinality(RiskLabelsOf(task[t].req.pr)) = 1

(***************************************************************************)
(* Pipeline claims (checked under Spec).                                   *)
(***************************************************************************)

\* The request i of the delivery tk failed as a step of the pipeline: it was not
\* answered 2xx, the bare-array attach answered non-2xx aside (its fallback
\* follows).
StepFailed(tk, i) ==
  /\ tk.calls[i].outcome # "ok"
  /\ ~(tk.calls[i].op = "attach_label" /\ tk.calls[i].arg[1] = "list" /\ tk.calls[i].outcome = "http_error")

\* C14: a failed step other than the review call (fetch PR, fetch files, post
\* comment, list or create label, attach label with both shapes failed) ends
\* the delivery with the server error 500 and is the last request the delivery
\* makes (a failed fetch also leaves the review call unmade); a delivery fails
\* only on a failed step; and 200 "posted" is answered only when the fetches,
\* the comment post, the label listing, the create if made, and the attach in
\* one of its shapes succeeded.
C14_StepFailureIsServerError ==
  \A t \in env.tasks :
    LET tk == task[t]
        n  == Len(tk.calls)
    IN  /\ \A i \in 1..n : StepFailed(tk, i) => i = n /\ tk.pc = "failed" /\ tk.status = 500
        /\ tk.pc = "failed" => n >= 1 /\ StepFailed(tk, n) /\ tk.reply # "posted"
        /\ (tk.pc = "failed" /\ tk.calls[n].op \in {"get_pr", "get_files"}) => tk.review = ReviewFresh
        /\ tk.reply = "posted" =>
             /\ tk.pc = "completed" /\ tk.status = 200
             /\ \A op \in {"get_pr", "get_files", "post_comment", "list_labels", "attach_label"} : Succeeded(t, op)
             /\ \A i \in 1..n : ~StepFailed(tk, i)

\* C14 witness: the comment was posted and the label found, both shapes of the
\* attach request failed, and the delivery has ended with 500.
C14_Witness ==
  \E t \in env.tasks :
    /\ task[t].pc = "failed" /\ task[t].status = 500 /\ task[t].failed_at = "attach_label_again"
    /\ Succeeded(t, "post_comment") /\ Count(task[t].calls, "attach_label") = 2

\* The attach requests of a delivery, in order.
AttachCalls(tk) == SelectSeq(tk.calls, LAMBDA c : c.op = "attach_label")

\* C17: add_label_to_issue sends the bare array first; it sends the
\* {labels: [id]} shape, with the same id, exactly once and only after the first
\* request got a non-2xx response; it makes at most two requests, no second one
\* when the first succeeded (or got no response), and the delivery fails when
\* both requests fail.
C17_AttachFallback ==
  \A t \in env.tasks :
    LET a == AttachCalls(task[t])
    IN  /\ Len(a) <= 2
        /\ Len(a) >= 1 => a[1].arg[1] = "list"
        /\ Len(a) = 2 => a[2].arg[1] = "object" /\ a[2].arg[2] = a[1].arg[2] /\ a[1].outcome = "http_error"
        /\ (Len(a) >= 1 /\ a[1].outcome = "ok") => Len(a) = 1 /\ task[t].pc = "completed"
        /\ (Len(a) >= 1 /\ a[1].outcome = "http_error") =>
             IF Len(a) = 1 THEN task[t].pc = "attach_label_again"
             ELSE IF a[2].outcome = "ok" THEN task[t].pc = "completed"
             ELSE task[t].pc = "failed" /\ task[t].status = 500

\* C17 witness: the bare array was answered non-2xx, the alternate shape was
\* accepted, and the label is on the issue.
C17_Witness ==
  \E t \in env.tasks :
    LET a == AttachCalls(task[t])
    IN  /\ Len(a) = 2 /\ a[1].outcome = "http_error" /\ a[2].outcome = "ok"
        /\ task[t].pc = "completed" /\ task[t].lb \in host.issue_labels[task[t].req.pr]

\* The place of a host API request in the pipeline; the review call comes third.
Rank(op) ==
  CASE op = "get_pr" -> 1 [] op = "get_files" -> 2 [] op = "post_comment" -> 4
    [] op = "list_labels" -> 5 [] op = "create_label" -> 6 [] op = "attach_label" -> 7

IsPrefix(p, q) == Len(p) <= Len(q) /\ SubSeq(q, 1, Len(p)) = p

\* C18: within a delivery the requests go out in the order fetch PR, fetch
\* files, review call, post comment, list labels, create label, attach label:
\* the review call starts after both fetches succeeded and has returned before
\* the comment is posted; a label request is issued only after the comment post
\* of that delivery succeeded; and a comment once posted stays on the issue,
\* whatever happens to the label requests.
C18_FixedOrder ==
  /\ [](\A t \in env.tasks :
          LET tk == task[t]
              n  == Len(tk.calls)
          IN  /\ \A i, j \in 1..n :
                   i < j => \/ Rank(tk.calls[i].op) < Rank(tk.calls[j].op)
                            \/ tk.calls[i].op = "attach_label" /\ tk.calls[j].op = "attach_label"
              /\ tk.review # ReviewFresh => Succeeded(t, "get_pr") /\ Succeeded(t, "get_files")
              /\ Count(tk.calls, "post_comment") > 0 => tk.review.pc = "returned"
              /\ (\E i \in 1..n : Rank(tk.calls[i].op) >= 5) =>
                   /\ Succeeded(t, "post_comment")
                   /\ \E c \in Range(host.comments[tk.req.pr]) : SubSeq(c, 4, Len(c)) = tk.review.text)
  /\ [][\A n \in Issues : IsPrefix(host.comments[n], host'.comments[n])]_vars

\* C18 witness: the comment was posted, then the label listing failed; the
\* delivery has ended with 500 and the comment is on the issue.
C18_Witness ==
  \E t \in env.tasks :
    /\ task[t].pc = "failed" /\ task[t].failed_at = "list_labels"
    /\ Len(host.comments[task[t].req.pr]) = 1
    /\ task[t].calls[Len(task[t].calls)].op = "list_labels"

(***************************************************************************)
(* Backoff claim (checked under SpecReview).                               *)
(***************************************************************************)

\* C15: within one review call the waits follow the schedule 2 seconds after
\* attempt 1 and 4 seconds after attempt 2; there are at most two waits, and no
\* wait follows the third and last attempt.
C15_BackoffBetweenAttempts ==
  rv.phase = "run" =>
    /\ Len(rv.call.sleeps) <= MaxAttempts - 1
    /\ \A i \in 1..Len(rv.call.sleeps) : rv.call.sleeps[i] = BackoffFactor * i
    /\ rv.call.pc = "sleep" => Len(rv.call.resps) < MaxAttempts

(***************************************************************************)
(* Diff construction claim (checked under SpecDiff).                       *)
(***************************************************************************)

\* The reference construction: the text made of the first k files of a listing.
\* A file with a non-empty patch adds the line "diff --git a/<path> b/<path>",
\* a newline and the patch, after a blank line when a chunk precedes it; any
\* other file adds nothing.
RECURSIVE Reference(_, _)
Reference(files, k) ==
  IF k = 0 THEN <<>>
  ELSE LET f      == files[k]
           before == Reference(files, k - 1)
           header == <<"d", "i", "f", "f", " ", "-", "-", "g", "i", "t", " ">>
                       \o <<"a", "/">> \o f.filename \o <<" ">> \o <<"b", "/">> \o f.filename
       IN  IF ~f.has_patch \/ Len(f.patch) = 0 THEN before
           ELSE (IF \E i \in 1..(k - 1) : files[i].has_patch /\ Len(files[i].patch) > 0
                   THEN before \o <<"\n", "\n">> ELSE <<>>)
                  \o header \o <<"\n">> \o f.patch

\* C16: for every file list the assembled diff is the reference construction:
\* returned unchanged when it fits the ceiling, and otherwise cut to its first
\* 48,000 characters with the truncation marker appended; the marker is
\* appended exactly when the joined text exceeds the ceiling.
C16_DiffIsReference ==
  df.phase = "done" =>
    LET files  == FilesOf(df.files)
        joined == Reference(files, Len(files))
    IN  /\ Len(joined) <= Ceiling => df.out = joined
        /\ Len(joined) > Ceiling => df.out = SubSeq(joined, 1, Ceiling) \o TruncationMarker
        /\ df.out # joined <=> Len(joined) > Ceiling

\* C16 witness: two files with a patch, the second one filling the ceiling
\* alone; the joined text of the two chunks exceeds the ceiling and was cut.
C16_Witness ==
  /\ df.phase = "done" /\ Len(df.files) = 2
  /\ df.files[1].patch = "small" /\ df.files[2].patch = "fit"
  /\ Len(df.out) = Ceiling + Len(TruncationMarker)
  /\ SubSeq(df.out, 1, Len(Chunk(FileNames[df.files[1].name], PatchTable.small.patch)) + 2)
       = Chunk(FileNames[df.files[1].name], PatchTable.small.patch) \o <<"\n", "\n">>

(***************************************************************************)
(* Risk classification claim (checked under SpecClassify).                 *)
(***************************************************************************)

Levels == {"low", "medium", "high"}

FixedName ==
  [ low    |-> <<"r", "i", "s", "k", ":", " ", "l", "o", "w">>,
    medium |-> <<"r", "i", "s", "k", ":", " ", "m", "e", "d", "i", "u", "m">>,
    high   |-> <<"r", "i", "s", "k", ":", " ", "h", "i", "g", "h">> ]

\* The lower-cased text s has, from position i on: "risk", optionally " level",
\* any white space, a colon, any white space, and the level l.
Occurs(s, i, l) ==
  \E opt \in {<<>>, <<" ", "l", "e", "v", "e", "l">>}, a, b \in 0..Len(s) :
    LET word  == <<"r", "i", "s", "k">> \o opt
        colon == i + Len(word) + a
        level == colon + 1 + b
    IN  /\ level + Len(FixedName[l]) - 7 <= Len(s)
        /\ SubSeq(s, i, i + Len(word) - 1) = word
        /\ \A k \in (i + Len(word))..(colon - 1) : s[k] \in {" ", "\t", "\n", "\r"}
        /\ s[colon] = ":"
        /\ \A k \in (colon + 1)..(level - 1) : s[k] \in {" ", "\t", "\n", "\r"}
        /\ SubSeq(s, level, level + Len(FixedName[l]) - 7) = SubSeq(FixedName[l], 7, Len(FixedName[l]))

\* C19: the classification is total and first-match: for every text the review
\* call returned, diagnostics included, the level is low, medium or high; it is
\* the level of the first occurrence, letter case aside, of "risk", optionally
\* " level", a colon, and low, medium or high, and medium when there is none;
\* the label created, when one is, has the fixed name of that level (risk: low,
\* risk: medium, risk: high), and the label attached has that name, letter case
\* aside.
C19_Classification ==
  \A t \in env.tasks :
    LET tk   == task[t]
        s    == Lower(tk.ai_text)
        hits == {i \in 1..Len(s) : \E l \in Levels : Occurs(s, i, l)}
    IN  /\ Succeeded(t, "post_comment") =>
             /\ tk.risk \in Levels
             /\ hits = {} => tk.risk = "medium"
             /\ hits # {} => Occurs(s, CHOOSE i \in hits : \A j \in hits : i <= j, tk.risk)
        /\ \A i \in 1..Len(tk.calls) : tk.calls[i].op = "create_label" => tk.calls[i].arg = FixedName[tk.risk]
        /\ tk.pc = "completed" =>
             \E lb \in host.labels :
               /\ lb.id = tk.lb /\ lb.id \in host.issue_labels[tk.req.pr]
               /\ Lower(lb.name) = FixedName[tk.risk]

\* C19 witness: the review text states low and then high; the delivery has
\* completed with the label risk: low.
C19_Witness ==
  \E t \in env.tasks :
    /\ task[t].pc = "completed" /\ task[t].ai_text = ResponseTable.ok_two.text
    /\ task[t].risk = "low"
    /\ \E lb \in host.labels : lb.id \in host.issue_labels[task[t].req.pr] /\ lb.name = FixedName.low

(***************************************************************************)
(* Termination claim (checked under SpecLive).                             *)
(***************************************************************************)

\* C20: every delivery received eventually has a terminal outcome (rejected,
\* ignored, completed, or failed with a server error), each outbound call
\* returning a response or a failure; and the review call of a delivery never
\* makes more than 3 attempts.
C20_EveryDeliveryEnds ==
  /\ \A t \in LiveTasks : (task[t].pc \notin Terminal \cup {"idle"}) ~> (task[t].pc \in Terminal)
  /\ [](\A t \in LiveTasks : Len(task[t].review.resps) <= MaxAttempts)

\* C20 witness: a delivery has ended, with a server error on the comment post,
\* after three rate-limited attempts of the review call.
C20_Witness ==
  \E t \in env.tasks :
    /\ task[t].pc = "failed" /\ task[t].failed_at = "post_comment"
    /\ Len(task[t].review.resps) = MaxAttempts /\ Len(task[t].review.sleeps) = MaxAttempts

====
